---- MODULE Spec2Model ----
(***************************************************************************)
(* A model of the number guessing game and of the object-document mapper   *)
(* it ships with.                                                          *)
(*                                                                         *)
(*   - smartninja_nosql/odm.py : class Model (create, edit, delete, get,   *)
(*     fetch) over one of the backends TinyDB, Datastore, Firestore and    *)
(*     MongoDB (Azure, Heroku).  Specification SpecOdm.                    *)
(*   - main.py : the request handlers of the game.  Specification SpecApp. *)
(*                                                                         *)
(* The two parts share no state: SpecOdm leaves the variables of the game  *)
(* alone and SpecApp those of the mapper.                                  *)
(***************************************************************************)
EXTENDS Integers, Sequences, FiniteSets, TLC

VARIABLES
    server_env,     \* odm.py: the backend chosen at import ("gae" split by gae_database)
    collection,     \* the documents of the collection of the class: doc id -> stored document
    next_id,        \* the id the backend assigns to the next document
    self,           \* the instance the last create() was called on, as it is after the call
    call,           \* the last call of the mapper: operation and arguments
    ret,            \* what the last call returned
    err,            \* the exception the last call raised ("" when it returned)
    backend_calls,  \* the backend interactions of the last call, in order
    users,          \* main.py: the rows of the User table: id -> row
    cookies,        \* the session_token cookie of each client ("" when it has none)
    response,       \* the last response: the client, the route and what was rendered
    next_token,     \* the next value uuid.uuid4() yields
    retired,        \* history: per user id, the session tokens a later login replaced
    confirmed_delete \* history: the ids of the users who confirmed POST /profile/delete

odm_vars == <<server_env, collection, next_id, self, call, ret, err, backend_calls>>
app_vars == <<users, cookies, response, next_token, retired, confirmed_delete>>
vars == <<odm_vars, app_vars>>

----------------------------------------------------------------------------
(* Bounds of the model.                                                    *)

MaxDocs == 2        \* documents created in one run
MaxFilters == 2     \* named filters of one fetch call
MaxLimit == 1       \* the largest limit passed to fetch
MaxUsers == 1       \* rows of the User table
MaxClients == 2     \* browsers (cookie jars) making requests
MaxTokens == 2      \* session tokens uuid.uuid4() hands out in one run

----------------------------------------------------------------------------
(* Python values.  Every value is a record of the same shape so that any   *)
(* two of them can be compared: t is the type, n the number (an int, the   *)
(* seconds of a datetime), m the microseconds of a datetime and s the text *)
(* of a str, a sequence of pieces of text.                                 *)

PyInt(n) == [t |-> "int", n |-> n, m |-> 0, s |-> <<>>]
PyStr(s) == [t |-> "str", n |-> 0, m |-> 0, s |-> s]
PyDateTime(sec, micro) == [t |-> "datetime", n |-> sec, m |-> micro, s |-> <<>>]

\* The apostrophe, the character the query strings quote str values with.
Quote == "'"

\* The sample values: the name of a document is a str, with or without an
\* apostrophe in it; its age is an int, or a datetime with microseconds.
NameValues == {PyStr(<<"a">>), PyStr(<<"a", Quote>>)}
AgeValues == {PyInt(1), PyInt(2), PyDateTime(1, 5)}

\* The field names of the modelled documents.
Fields == {"name", "age"}

\* The documents: what Model.__init__ builds from its keyword arguments.
Docs == {d \in [Fields -> NameValues \cup AgeValues] :
             d["name"] \in NameValues /\ d["age"] \in AgeValues}

\* The keyword arguments of the modelled edit calls.
Patches ==
    {d \in UNION {[S -> NameValues \cup AgeValues] : S \in {{"name"}, {"age"}}} :
        /\ "name" \in DOMAIN d => d["name"] \in NameValues
        /\ "age" \in DOMAIN d => d["age"] \in AgeValues}

NoId == 0
Ids == 1..MaxDocs

Backends == {"localhost", "datastore", "firestore", "azure", "heroku"}
IsMongo == server_env \in {"azure", "heroku"}

----------------------------------------------------------------------------
(* get_collection and the serialization of the local store.                *)

\* DateTimeSerializer.encode: strftime('%Y-%m-%dT%H:%M:%S') keeps whole seconds.
encode(v) == [t |-> "TinyDate", n |-> v.n, m |-> 0, s |-> <<>>]

\* DateTimeSerializer.decode: strptime of the stored text.
decode(v) == PyDateTime(v.n, 0)

\* What the storage of the backend keeps of a document written to it: the
\* serialization middleware of the local store encodes every datetime.
Written(d) ==
    IF server_env = "localhost"
    THEN [f \in DOMAIN d |-> IF d[f].t = "datetime" THEN encode(d[f]) ELSE d[f]]
    ELSE d

\* What a read of a stored document yields.
Loaded(d) ==
    IF server_env = "localhost"
    THEN [f \in DOMAIN d |-> IF d[f].t = "TinyDate" THEN decode(d[f]) ELSE d[f]]
    ELSE d

\* Model.get_collection: the backend interactions it makes.
get_collection ==
    CASE server_env = "localhost" -> <<"TinyDB", "db.table">>
      [] server_env = "datastore" -> <<"datastore.Client">>
      [] server_env = "firestore" -> <<"firestore.client", "db.collection">>
      [] server_env = "azure" -> <<"client[]", "db.authenticate", "db[]">>
      [] server_env = "heroku" -> <<"client[]", "db[]">>

NoCall == [op |-> "", obj_id |-> NoId, fields |-> <<>>, filters |-> <<>>, limit |-> 0]
NoRet == [id |-> NoId, objects |-> <<>>]
NoSelf == [attrs |-> <<>>, id |-> NoId]

\* cls(**obj_dict): the instance built from a document and its id.
Instance(d, id) == [attrs |-> d, id |-> id]

----------------------------------------------------------------------------
(* create, edit, delete, get.                                              *)

\* Model.create on a new instance with the attributes attrs.
create(attrs) ==
    /\ next_id <= MaxDocs
    /\ collection' = [i \in DOMAIN collection \cup {next_id} |->
                         IF i = next_id THEN Written(attrs) ELSE collection[i]]
    /\ next_id' = next_id + 1
       \* insert_one adds the key "_id" to the dict it is given, self.__dict__
    /\ self' = [attrs |-> IF IsMongo
                          THEN [f \in DOMAIN attrs \cup {"_id"} |->
                                   IF f = "_id" THEN [t |-> "ObjectId", n |-> next_id, m |-> 0, s |-> <<>>]
                                   ELSE attrs[f]]
                          ELSE attrs,
                id |-> next_id]
    /\ call' = [NoCall EXCEPT !.op = "create", !.fields = attrs]
    /\ ret' = [NoRet EXCEPT !.id = next_id]
    /\ err' = ""
    /\ backend_calls' = get_collection \o
           <<CASE server_env = "localhost" -> "collection.insert"
               [] server_env = "datastore" -> "collection.put"
               [] server_env = "firestore" -> "obj_ref.set"
               [] OTHER -> "collection.insert_one">>
    /\ UNCHANGED <<server_env, app_vars>>

\* The exception edit raises for an id the collection does not hold ("" when
\* the backend ignores the update).
EditMissing ==
    CASE server_env = "localhost" -> "KeyError"
      [] server_env = "datastore" -> "TypeError"
      [] server_env = "firestore" -> "NotFound"
      [] OTHER -> ""

\* The document d with the fields of kwargs set.
Updated(d, kwargs) ==
    [f \in DOMAIN d \cup DOMAIN kwargs |-> IF f \in DOMAIN kwargs THEN kwargs[f] ELSE d[f]]

\* Model.edit(obj_id, **kwargs).
edit(obj_id, kwargs) ==
    /\ collection' = IF obj_id \in DOMAIN collection
                     THEN [collection EXCEPT ![obj_id] = Updated(@, Written(kwargs))]
                     ELSE collection
    /\ call' = [NoCall EXCEPT !.op = "edit", !.obj_id = obj_id, !.fields = kwargs]
    /\ ret' = NoRet
    /\ err' = IF obj_id \in DOMAIN collection THEN "" ELSE EditMissing
    /\ backend_calls' = get_collection \o
           <<CASE server_env = "localhost" -> "collection.update"
               [] server_env = "datastore" -> "collection.get"
               [] server_env = "firestore" -> "document.update"
               [] OTHER -> "collection.update_one">>
           \o (IF server_env = "datastore" /\ obj_id \in DOMAIN collection
               THEN <<"collection.put">> ELSE <<>>)
    /\ UNCHANGED <<server_env, next_id, self, app_vars>>

\* Model.delete(obj_id).
delete(obj_id) ==
    /\ collection' = [i \in DOMAIN collection \ {obj_id} |-> collection[i]]
    /\ call' = [NoCall EXCEPT !.op = "delete", !.obj_id = obj_id]
    /\ ret' = NoRet
    /\ err' = IF server_env = "localhost" /\ obj_id \notin DOMAIN collection
              THEN "KeyError" ELSE ""
    /\ backend_calls' = get_collection \o
           <<CASE server_env = "localhost" -> "collection.remove"
               [] server_env = "datastore" -> "collection.delete"
               [] server_env = "firestore" -> "document.delete"
               [] OTHER -> "collection.delete_one">>
    /\ UNCHANGED <<server_env, next_id, self, app_vars>>

\* The exception get raises for an id the collection does not hold.
GetMissing == IF server_env = "datastore" THEN "AttributeError" ELSE "TypeError"

\* Model.get(obj_id).
get(obj_id) ==
    /\ call' = [NoCall EXCEPT !.op = "get", !.obj_id = obj_id]
    /\ ret' = IF obj_id \in DOMAIN collection
              THEN [NoRet EXCEPT !.objects = <<Instance(Loaded(collection[obj_id]), obj_id)>>]
              ELSE NoRet
    /\ err' = IF obj_id \in DOMAIN collection THEN "" ELSE GetMissing
    /\ backend_calls' = get_collection \o
           <<CASE server_env = "localhost" -> "collection.get"
               [] server_env = "datastore" -> "collection.get"
               [] server_env = "firestore" -> "document.get"
               [] OTHER -> "collection.find_one">>
    /\ UNCHANGED <<server_env, collection, next_id, self, app_vars>>

----------------------------------------------------------------------------
(* Filters and the comparisons of the backends.                            *)

\* A filter as the caller passes it: its container type and its items.
Filter(type, items) == [type |-> type, items |-> items]

\* The operators a filter may name, and the one fetch refuses.
Operators == {"==", ">", "<", ">=", "<="}
NotEqual == PyStr(<<"!=">>)

\* The values the filters compare with (a str or a number).
FilterValue(field) == IF field = "name" THEN NameValues ELSE {PyInt(1), PyInt(2)}

\* The well-formed filters: [field, operator, value].
Triples ==
    {Filter("list", <<PyStr(<<f>>), PyStr(<<o>>), v>>) :
        f \in Fields, o \in Operators \cup {"!="}, v \in NameValues \cup {PyInt(1), PyInt(2)}}

\* The sample filters: the well-formed ones whose value has the type of the
\* field, and one filter of each other shape.
Filters ==
    {q \in Triples : q.items[3] \in FilterValue(q.items[1].s[1])}
    \cup {Filter("tuple", <<PyStr(<<"age">>), PyStr(<<"==">>), PyInt(1)>>),
          Filter("list", <<PyStr(<<"age">>), PyStr(<<"==">>)>>),
          Filter("list", <<PyStr(<<"age">>), PyStr(<<"==">>), PyInt(1), PyInt(2)>>)}

\* The code of a character, for the order of str values.
ord(c) == IF c = Quote THEN 39 ELSE 97

RECURSIVE StrLess(_, _)
StrLess(a, b) ==
    IF b = <<>> THEN FALSE
    ELSE IF a = <<>> THEN TRUE
    ELSE IF ord(Head(a)) # ord(Head(b)) THEN ord(Head(a)) < ord(Head(b))
    ELSE StrLess(Tail(a), Tail(b))

\* a < b for two values of one type; values of different types do not compare.
Less(a, b) ==
    /\ a.t = b.t
    /\ CASE a.t = "int" -> a.n < b.n
         [] a.t = "datetime" -> a.n < b.n \/ (a.n = b.n /\ a.m < b.m)
         [] a.t = "str" -> StrLess(a.s, b.s)
         [] OTHER -> FALSE

\* The comparison an operator of the filter triple stands for.
Compare(op, a, b) ==
    CASE op = "==" -> a = b
      [] op = ">" -> Less(b, a)
      [] op = "<" -> Less(a, b)
      [] op = ">=" -> a = b \/ Less(b, a)
      [] op = "<=" -> a = b \/ Less(a, b)
      [] OTHER -> FALSE

\* The operator tokens each backend understands, as the operator they mean.
NativeOperator(token) ==
    CASE server_env \in {"localhost", "firestore"} /\ token \in Operators -> token
      [] server_env = "datastore" /\ token = "=" -> "=="
      [] server_env = "datastore" /\ token \in Operators \ {"=="} -> token
      [] IsMongo /\ token = "$eq" -> "=="
      [] IsMongo /\ token = "$gt" -> ">"
      [] IsMongo /\ token = "$lt" -> "<"
      [] IsMongo /\ token = "$gte" -> ">="
      [] IsMongo /\ token = "$lte" -> "<="
      [] OTHER -> "invalid"

\* A clause of a native query.
Clause(field, token, value) == [field |-> field, token |-> token, value |-> value]

\* Whether the backend finds the document d to match the clause c.
Matches(d, c) ==
    /\ c.field \in DOMAIN d
    /\ Compare(NativeOperator(c.token), d[c.field], c.value)

\* The ids of the stored documents matching every clause, in the order of
\* the backend (the order of the ids).
RECURSIVE Ascending(_)
Ascending(S) ==
    IF S = {} THEN <<>>
    ELSE LET lo == CHOOSE i \in S : \A j \in S : i <= j
         IN <<lo>> \o Ascending(S \ {lo})

Search(clauses) ==
    Ascending({i \in DOMAIN collection :
        \A k \in 1..Len(clauses) : Matches(Loaded(collection[i]), clauses[k])})

\* dict_objects[:limit], find(...).limit(limit), query.fetch(limit=limit).
Limited(ids, limit) ==
    IF limit # 0 /\ limit < Len(ids) THEN SubSeq(ids, 1, limit) ELSE ids

----------------------------------------------------------------------------
(* fetch: the check of the filters and the translation for each backend.   *)

\* The check of the type and of the operator: the exception raised at the
\* first filter, in the order of the keyword arguments, that is no list or
\* holds '!=' ("" when there is none).
CheckFilters(kwargs) ==
    LET bad == {i \in 1..Len(kwargs) :
                   \/ kwargs[i].type # "list"
                   \/ \E j \in 1..Len(kwargs[i].items) : kwargs[i].items[j] = NotEqual}
    IN IF bad = {} THEN ""
       ELSE LET i == CHOOSE x \in bad : \A y \in bad : x <= y
            IN IF kwargs[i].type # "list" THEN "TypeError" ELSE "SyntaxError"

\* The filters read before query_list[2] fails on a filter with fewer than
\* three items: all of them when there is no such filter.
ReadBeforeIndexError(kwargs) ==
    LET short == {i \in 1..Len(kwargs) : Len(kwargs[i].items) < 3}
    IN IF short = {} THEN Len(kwargs)
       ELSE (CHOOSE x \in short : \A y \in short : x <= y) - 1

\* The outcome of the backend branch of fetch: the exception raised, the
\* backend interactions made and the ids of the documents found.
Outcome(e, calls, ids) == [err |-> e, calls |-> calls, ids |-> ids]

Digits == <<"0", "1", "2", "3", "4", "5", "6", "7", "8", "9">>

\* '{2}'.format(value): the text of a value.
FormatValue(v) ==
    CASE v.t = "str" -> v.s
      [] v.t = "int" -> <<Digits[v.n + 1]>>
      [] OTHER -> <<"YYYY-MM-DD HH:MM:SS.ffffff">>

\* The text of the value in the query string: a str is put between apostrophes.
ValueText(v) ==
    IF v.t = "str" THEN <<Quote>> \o FormatValue(v) \o <<Quote>> ELSE FormatValue(v)

SyntaxErrorValue == [t |-> "SyntaxError", n |-> 0, m |-> 0, s |-> <<>>]

\* eval of the text of a value: a number, or a str literal that ends at the
\* first apostrophe after the opening one; text after it is a syntax error.
PyLiteral(text) ==
    IF Head(text) = Quote
    THEN LET close == CHOOSE j \in 2..Len(text) :
                          text[j] = Quote /\ \A k \in 2..(j - 1) : text[k] # Quote
         IN IF close = Len(text) THEN PyStr(SubSeq(text, 2, close - 1))
            ELSE SyntaxErrorValue
    ELSE IF Len(text) = 1 /\ \E n \in 0..9 : Digits[n + 1] = text[1]
    THEN PyInt(CHOOSE n \in 0..9 : Digits[n + 1] = text[1])
    ELSE SyntaxErrorValue

\* A piece of a query string: a comparison "(Query().field op text)" or the
\* separator " & ".
Comparison(q) ==
    [k |-> "cmp", field |-> q.items[1].s[1], op |-> q.items[2].s[1], text |-> ValueText(q.items[3])]
Ampersand == [k |-> "&", field |-> "", op |-> "", text |-> <<>>]

\* The local store: query_string as the loop builds it.
RECURSIVE QueryString(_)
QueryString(kwargs) ==
    IF kwargs = <<>> THEN <<>>
    ELSE <<Comparison(Head(kwargs)), Ampersand>> \o QueryString(Tail(kwargs))

\* query_string[:-3]
StripLast(query_string) == SubSeq(query_string, 1, Len(query_string) - 1)

\* eval(query_string): the clauses of the query, << >> on a syntax error
\* (the string of a fetch with filters is never empty).
EvalQuery(query_string) ==
    LET n == (Len(query_string) + 1) \div 2
        clauses == [i \in 1..n |->
                       Clause(query_string[2 * i - 1].field, query_string[2 * i - 1].op,
                              PyLiteral(query_string[2 * i - 1].text))]
    IN IF \/ Len(query_string) % 2 = 0
          \/ \E i \in 1..Len(query_string) : query_string[i].k # (IF i % 2 = 1 THEN "cmp" ELSE "&")
          \/ \E i \in 1..n : clauses[i].value = SyntaxErrorValue
       THEN <<>>
       ELSE clauses

\* What the backend does with a query: it refuses an operator it does not
\* know, else it finds the matching documents, limit of them at most.
RunQuery(clauses, limit, calls) ==
    IF \E k \in 1..Len(clauses) : NativeOperator(clauses[k].token) = "invalid"
    THEN Outcome("ValueError", calls, <<>>)
    ELSE Outcome("", calls, Limited(Search(clauses), limit))

\* odm.py 310-329: the local store.
fetch_localhost(limit, kwargs) ==
    IF kwargs = <<>> THEN RunQuery(<<>>, limit, <<"collection.all">>)
    ELSE IF ReadBeforeIndexError(kwargs) < Len(kwargs) THEN Outcome("IndexError", <<>>, <<>>)
    ELSE LET clauses == EvalQuery(StripLast(QueryString(kwargs)))
         IN IF clauses = <<>> THEN Outcome("SyntaxError", <<>>, <<>>)
            ELSE RunQuery(clauses, limit, <<"collection.search">>)

\* odm.py 333-339: '==' becomes '=', then query.add_filter.
DatastoreFilter(q) ==
    Clause(q.items[1].s[1],
           IF q.items[2] = PyStr(<<"==">>) THEN "=" ELSE q.items[2].s[1],
           q.items[3])

\* odm.py 332-348: Datastore.
fetch_datastore(limit, kwargs) ==
    LET read == ReadBeforeIndexError(kwargs)
        added == [i \in 1..read |-> "query.add_filter"]
    IN IF read < Len(kwargs) THEN Outcome("IndexError", <<"collection.query">> \o added, <<>>)
       ELSE RunQuery([i \in 1..Len(kwargs) |-> DatastoreFilter(kwargs[i])], limit,
                     <<"collection.query">> \o added \o <<"query.fetch">>)

\* odm.py 350-356: query_ref, one ".where('field', 'op', text)" for each filter.
QueryRef(kwargs) == [i \in 1..Len(kwargs) |-> Comparison(kwargs[i])]

\* odm.py 349-367: Firestore; eval(query_ref) makes the where calls.
fetch_firestore(limit, kwargs) ==
    LET query_ref == QueryRef(kwargs)
        clauses == [i \in 1..Len(kwargs) |->
                       Clause(query_ref[i].field, query_ref[i].op, PyLiteral(query_ref[i].text))]
        wheres == [i \in 1..Len(kwargs) |-> "collection.where"]
    IN IF ReadBeforeIndexError(kwargs) < Len(kwargs) THEN Outcome("IndexError", <<>>, <<>>)
       ELSE IF \E i \in 1..Len(kwargs) : clauses[i].value = SyntaxErrorValue
       THEN Outcome("SyntaxError", <<>>, <<>>)
       ELSE RunQuery(clauses, limit,
                     wheres \o (IF limit # 0 THEN <<"query.limit">> ELSE <<>>) \o <<"query.get">>)

\* odm.py 376-396: the condition of one filter; {field: value} is equality.
MongoCondition(q) ==
    Clause(q.items[1].s[1],
           CASE q.items[2] = PyStr(<<">">>) -> "$gt"
             [] q.items[2] = PyStr(<<"<">>) -> "$lt"
             [] q.items[2] = PyStr(<<">=">>) -> "$gte"
             [] q.items[2] = PyStr(<<"<=">>) -> "$lte"
             [] OTHER -> "$eq",
           q.items[3])

\* odm.py 371-399: query_filter, the clauses find() matches a document against:
\* the direct condition of a single filter, or the '$and' list of several.
QueryFilter(kwargs) ==
    LET direct == IF Len(kwargs) = 1 THEN <<MongoCondition(kwargs[1])>> ELSE <<>>
        and_list == IF Len(kwargs) = 1 THEN <<>>
                    ELSE [i \in 1..Len(kwargs) |-> MongoCondition(kwargs[i])]
    IN direct \o (IF Len(kwargs) > 1 THEN and_list ELSE <<>>)

\* odm.py 369-415: MongoDB (Azure, Heroku).
fetch_mongo(limit, kwargs) ==
    LET find == <<"collection.find">> \o (IF limit # 0 THEN <<"cursor.limit">> ELSE <<>>)
    IN IF ReadBeforeIndexError(kwargs) < Len(kwargs) THEN Outcome("IndexError", <<>>, <<>>)
       ELSE RunQuery(QueryFilter(kwargs), limit, find)

\* Model.fetch(limit, **kwargs).
fetch(limit, kwargs) ==
    LET refused == CheckFilters(kwargs)
        out == IF refused # "" THEN Outcome(refused, <<>>, <<>>)
               ELSE CASE server_env = "localhost" -> fetch_localhost(limit, kwargs)
                      [] server_env = "datastore" -> fetch_datastore(limit, kwargs)
                      [] server_env = "firestore" -> fetch_firestore(limit, kwargs)
                      [] OTHER -> fetch_mongo(limit, kwargs)
    IN /\ call' = [NoCall EXCEPT !.op = "fetch", !.filters = kwargs, !.limit = limit]
          /\ ret' = [NoRet EXCEPT !.objects =
                     [i \in 1..Len(out.ids) |->
                         Instance(Loaded(collection[out.ids[i]]), out.ids[i])]]
       /\ err' = out.err
       /\ backend_calls' = get_collection \o out.calls
       /\ UNCHANGED <<server_env, collection, next_id, self, app_vars>>

\* The keyword arguments of the modelled fetch calls: up to MaxFilters filters.
Kwargs == UNION {[1..n -> Filters] : n \in 0..MaxFilters}

----------------------------------------------------------------------------
(* The mapper as a state machine.                                          *)

\* The state of the game before any request.
NoRequests ==
    /\ users = <<>>
    /\ cookies = <<>>
    /\ response = <<>>
    /\ next_token = 1
    /\ retired = {}
    /\ confirmed_delete = {}

InitOdm ==
    /\ NoRequests
    /\ server_env \in Backends
    /\ collection = <<>>
    /\ next_id = 1
    /\ self = NoSelf
    /\ call = NoCall
    /\ ret = NoRet
    /\ err = ""
    /\ backend_calls = <<>>

\* The filters of the fetch calls made between the other operations.
FewKwargs ==
    {<<>>,
     <<Filter("list", <<PyStr(<<"age">>), PyStr(<<">=">>), PyInt(2)>>)>>,
     <<Filter("list", <<PyStr(<<"name">>), PyStr(<<"==">>), PyStr(<<"a">>)>>),
       Filter("list", <<PyStr(<<"age">>), PyStr(<<"<">>), PyInt(2)>>)>>}

NextOdm ==
    \/ \E attrs \in Docs : create(attrs)
    \/ \E obj_id \in Ids, kwargs \in Patches : edit(obj_id, kwargs)
    \/ \E obj_id \in Ids : delete(obj_id)
    \/ \E obj_id \in Ids : get(obj_id)
    \/ \E limit \in 0..MaxLimit, kwargs \in FewKwargs : fetch(limit, kwargs)

\* Every operation of the mapper, from an empty collection.
SpecOdm == InitOdm /\ [][NextOdm]_vars

\* The collections a process may find when it starts: documents that earlier
\* runs wrote under some of the ids.
Collections ==
    UNION {[S -> {[f \in Fields |-> IF d[f].t = "datetime" /\ e = "localhost"
                                     THEN encode(d[f]) ELSE d[f]] : d \in Docs}] :
           S \in SUBSET Ids, e \in {server_env}}

InitFetch ==
    /\ NoRequests
    /\ server_env \in Backends
    /\ collection \in Collections
    /\ next_id = MaxDocs + 1
    /\ self = NoSelf
    /\ call = NoCall
    /\ ret = NoRet
    /\ err = ""
    /\ backend_calls = <<>>

\* The first call of a process: a fetch with any of the modelled arguments.
NextFetch ==
    /\ call.op = ""
    /\ \E limit \in 0..MaxLimit, kwargs \in Kwargs : fetch(limit, kwargs)

\* fetch as a function of the stored collection and of its arguments.
SpecFetch == InitFetch /\ [][NextFetch]_vars

----------------------------------------------------------------------------
(* main.py: the game.  The User table and the queries on it.               *)

LowSecret == 1      \* random.randint(1, 30)
HighSecret == 30
SecretNumbers == LowSecret..HighSecret

Clients == 1..MaxClients
Emails == {"test@test.com", "other@test.com"}
Names == {"Test User"}
Passwords == {"secret", "guess"}
\* request.form.get of a field the form does not hold
None == "None"

NoUser == 0
NoToken == 0

\* generate_password_hash: what is stored is a digest, not the password.
generate_password_hash(password) == [digest |-> password]

\* check_password_hash(pwhash, password)
check_password_hash(pwhash, password) == pwhash.digest = password

\* models.User: a new row; session_token is null and deleted is false until
\* a handler sets them.
User(id, name, email, password, secret_number) ==
    [id |-> id, name |-> name, email |-> email, password |-> password,
     session_token |-> NoToken, secret_number |-> secret_number, deleted |-> FALSE]

\* query.first(): the first of the rows found, NoUser when there is none.
first(found) ==
    IF found = {} THEN NoUser ELSE CHOOSE i \in found : \A j \in found : i <= j

\* The same query without the deleted=False filter.
filter_by_session_any(session_token) ==
    {i \in DOMAIN users : users[i].session_token = session_token}

\* db.query(User).filter_by(session_token=session_token, deleted=False)
filter_by_session_live(session_token) ==
    {i \in DOMAIN users : users[i].session_token = session_token /\ users[i].deleted = FALSE}

\* db.query(User).filter_by(session_token=session_token)
filter_by_session(session_token) ==
    {i \in DOMAIN users : users[i].session_token = session_token}

\* db.query(User).filter_by(email=email)
filter_by_email(email) == {i \in DOMAIN users : users[i].email = email}

\* request.cookies.get("session_token") of a request of client c
session_cookie(c) == cookies[c].session_token

\* A response: the client it goes to, the route, the status, what the body
\* shows, the user the handler found, and the guess of the form of /result.
Response(c, route, status, body, user) ==
    [client |-> c, route |-> route, status |-> status, body |-> body, user |-> user,
     guess |-> 0]

\* What index.html shows: the guess form to a user, else the login form.
index_html(user) == IF user # NoUser THEN "Enter your guess" ELSE "Enter your name"

----------------------------------------------------------------------------
(* main.py: the request handlers.                                          *)

\* GET /
index(c) ==
    LET session_token == session_cookie(c)
        user == IF session_token # NoToken
                THEN first(filter_by_session_live(session_token))
                ELSE NoUser
    IN /\ response' = Response(c, "GET /", 200, index_html(user), user)
       /\ UNCHANGED <<users, cookies, next_token, retired, confirmed_delete, odm_vars>>

\* The id of the user the login is for: the one with the email, else a new one.
login_user(email) ==
    IF filter_by_email(email) # {} THEN first(filter_by_email(email)) ELSE Len(users) + 1

\* The User table once login has added the user, if she is new.
login_added(name, email, password, secret_number) ==
    IF filter_by_email(email) # {} THEN users
    ELSE Append(users, User(Len(users) + 1, name, email,
                            generate_password_hash(password), secret_number))

\* A login that keeps the session token the user already has.
login_token_kept(row) ==
    IF row.session_token # NoToken THEN row.session_token ELSE next_token

\* The session token login stores on the user row: a new uuid4.
login_token(row) == next_token

\* POST /login
login(c, name, email, password, secret_number) ==
    LET id == login_user(email)
        added == login_added(name, email, password, secret_number)
    IN /\ next_token <= MaxTokens
       /\ Len(added) <= MaxUsers
       /\ IF password = None
          THEN \* the hash functions raise on a missing password
               /\ response' = Response(c, "POST /login", 500, "TypeError", NoUser)
               /\ UNCHANGED <<users, cookies, next_token, retired>>
          ELSE IF ~check_password_hash(added[id].password, password)
          THEN /\ response' = Response(c, "POST /login", 200,
                                       "Sorry, your password is not correct.", NoUser)
               /\ users' = added
               /\ UNCHANGED <<cookies, next_token, retired>>
          ELSE /\ users' = [added EXCEPT ![id].session_token = login_token(added[id])]
               /\ next_token' = next_token + 1
               /\ cookies' = [cookies EXCEPT ![c].session_token = login_token(added[id])]
               /\ retired' = IF added[id].session_token # NoToken
                             THEN retired \cup {<<id, added[id].session_token>>}
                             ELSE retired
               /\ response' = Response(c, "POST /login", 302, "redirect to index", id)
       /\ UNCHANGED <<confirmed_delete, odm_vars>>

\* GET /logout
logout(c) ==
    /\ cookies' = [cookies EXCEPT ![c].email = NoToken]
    /\ response' = Response(c, "GET /logout", 200, index_html(NoUser), NoUser)
    /\ UNCHANGED <<users, next_token, retired, confirmed_delete, odm_vars>>

\* GET /profile
show_profile(c) ==
    LET user == first(filter_by_session_live(session_cookie(c)))
    IN /\ response' = IF user # NoUser
                      THEN Response(c, "GET /profile", 200, "profile.html", user)
                      ELSE Response(c, "GET /profile", 302, "redirect to index", NoUser)
       /\ UNCHANGED <<users, cookies, next_token, retired, confirmed_delete, odm_vars>>

\* GET /profile/edit
edit_profile_get(c) ==
    LET user == first(filter_by_session_live(session_cookie(c)))
    IN /\ response' = IF user # NoUser
                      THEN Response(c, "GET /profile/edit", 200, "profile_edit.html", user)
                      ELSE Response(c, "GET /profile/edit", 302, "redirect to index", NoUser)
       /\ UNCHANGED <<users, cookies, next_token, retired, confirmed_delete, odm_vars>>

\* POST /profile/edit
edit_profile_post(c, name, email, prev_password, new_password) ==
    LET user == first(filter_by_session_live(session_cookie(c)))
    IN /\ IF user = NoUser
          THEN \* user.password of None
               /\ response' = Response(c, "POST /profile/edit", 500, "AttributeError", NoUser)
               /\ UNCHANGED users
          ELSE IF check_password_hash(users[user].password, prev_password)
          THEN /\ users' = [users EXCEPT ![user].password = generate_password_hash(new_password),
                                         ![user].name = name,
                                         ![user].email = email]
               /\ response' = Response(c, "POST /profile/edit", 302, "redirect to show_profile", user)
          ELSE /\ response' = Response(c, "POST /profile/edit", 200,
                                       "Wrong (old) password! Go back and try again.", user)
               /\ UNCHANGED users
       /\ UNCHANGED <<cookies, next_token, retired, confirmed_delete, odm_vars>>

\* GET /profile/delete
profile_delete_get(c) ==
    LET user == first(filter_by_session_live(session_cookie(c)))
    IN /\ response' = IF user # NoUser
                      THEN Response(c, "GET /profile/delete", 200, "profile_delete.html", user)
                      ELSE Response(c, "GET /profile/delete", 302, "redirect to index", NoUser)
       /\ UNCHANGED <<users, cookies, next_token, retired, confirmed_delete, odm_vars>>

\* The User table once POST /profile/delete has marked the user.
soft_deleted(user) == [users EXCEPT ![user].deleted = TRUE]

\* POST /profile/delete
profile_delete_post(c) ==
    LET user == first(filter_by_session_live(session_cookie(c)))
    IN /\ IF user = NoUser
          THEN \* user.deleted of None
               /\ response' = Response(c, "POST /profile/delete", 500, "AttributeError", NoUser)
               /\ UNCHANGED <<users, confirmed_delete>>
          ELSE /\ users' = soft_deleted(user)
               /\ confirmed_delete' = confirmed_delete \cup {user}
               /\ response' = Response(c, "POST /profile/delete", 302, "redirect to index", user)
       /\ UNCHANGED <<cookies, next_token, retired, odm_vars>>

\* The messages with the two comparisons the wrong way round.
message_swapped(guess, secret_number) ==
    IF guess = secret_number THEN "Correct! The secret number is"
    ELSE IF guess < secret_number THEN "Your guess is not correct... try something smaller."
    ELSE "Your guess is not correct... try something bigger."

\* The message of POST /result for a guess and the secret number of the user.
message(guess, secret_number) ==
    IF guess = secret_number THEN "Correct! The secret number is"
    ELSE IF guess > secret_number THEN "Your guess is not correct... try something smaller."
    ELSE "Your guess is not correct... try something bigger."

\* POST /result
result(c, guess, new_secret) ==
    LET user == first(filter_by_session(session_cookie(c)))
    IN /\ IF user = NoUser
          THEN \* user.secret_number of None
               /\ response' = Response(c, "POST /result", 500, "AttributeError", NoUser)
               /\ UNCHANGED users
          ELSE /\ response' = [Response(c, "POST /result", 200,
                                        message(guess, users[user].secret_number), user)
                                   EXCEPT !.guess = guess]
               /\ users' = IF guess = users[user].secret_number
                           THEN [users EXCEPT ![user].secret_number = new_secret]
                           ELSE users
       /\ UNCHANGED <<cookies, next_token, retired, confirmed_delete, odm_vars>>

\* GET /users
all_users(c) ==
    /\ response' = Response(c, "GET /users", 200, "users.html", NoUser)
    /\ UNCHANGED <<users, cookies, next_token, retired, confirmed_delete, odm_vars>>

\* GET /users/<user_id>: db.query(User).get(user_id)
user_details(c, user_id) ==
    /\ response' = Response(c, "GET /users/<id>", 200, "user_details.html",
                            IF user_id \in DOMAIN users THEN user_id ELSE NoUser)
    /\ UNCHANGED <<users, cookies, next_token, retired, confirmed_delete, odm_vars>>

\* The mapper of a process that serves no call.
NoCalls ==
    /\ server_env = "localhost"
    /\ collection = <<>>
    /\ next_id = 1
    /\ self = NoSelf
    /\ call = NoCall
    /\ ret = NoRet
    /\ err = ""
    /\ backend_calls = <<>>

NoResponse == Response(0, "", 0, "", NoUser)

InitApp ==
    /\ NoCalls
    /\ users = <<>>
    /\ cookies = [c \in Clients |-> [session_token |-> NoToken, email |-> NoToken]]
    /\ response = NoResponse
    /\ next_token = 1
    /\ retired = {}
    /\ confirmed_delete = {}

\* The guesses tried against a stored secret number s: the number itself and
\* its neighbours, which lie outside the range at its ends.
Guesses(s) == {s - 1, s, s + 1}

\* The secret number of the user POST /result of client c looks up.
Playing(c) ==
    IF first(filter_by_session(session_cookie(c))) = NoUser THEN LowSecret
    ELSE users[first(filter_by_session(session_cookie(c)))].secret_number

\* The numbers random.randint(1, 30) may yield where the handler goes on to
\* store the number; where it does not, one draw stands for all of them.
Drawn(stored) == IF stored THEN SecretNumbers ELSE {LowSecret}

NextApp ==
    \/ \E c \in Clients : index(c)
    \/ \E c \in Clients, name \in Names, email \in Emails, password \in Passwords \cup {None} :
          \E secret_number \in Drawn(filter_by_email(email) = {} /\ password # None) :
            login(c, name, email, password, secret_number)
    \/ \E c \in Clients : logout(c)
    \/ \E c \in Clients : show_profile(c)
    \/ \E c \in Clients : edit_profile_get(c)
    \/ \E c \in Clients, name \in Names, email \in Emails,
          prev_password \in Passwords, new_password \in Passwords :
            edit_profile_post(c, name, email, prev_password, new_password)
    \/ \E c \in Clients : profile_delete_get(c)
    \/ \E c \in Clients : profile_delete_post(c)
    \/ \E c \in Clients :
          \E guess \in Guesses(Playing(c)) :
            \E new_secret \in Drawn(guess = Playing(c)) : result(c, guess, new_secret)
    \/ \E c \in Clients : all_users(c)
    \/ \E c \in Clients, user_id \in 1..MaxUsers : user_details(c, user_id)

\* The game, from an empty User table.
SpecApp == InitApp /\ [][NextApp]_vars

----------------------------------------------------------------------------
(* The mapper: what the specification says of it.                          *)

\* A filter of the right shape: a list of a field, one of the five operators
\* and a value.
WellFormed(q) ==
    /\ q.type = "list"
    /\ Len(q.items) = 3
    /\ q.items[2].t = "str" /\ Len(q.items[2].s) = 1 /\ q.items[2].s[1] \in Operators

\* Whether the document d satisfies the filter q.
Satisfies(d, q) ==
    /\ q.items[1].s[1] \in DOMAIN d
    /\ Compare(q.items[2].s[1], d[q.items[1].s[1]], q.items[3])

\* The instances of the stored documents that satisfy every filter of kwargs.
AllMatches(kwargs) ==
    {Instance(Loaded(collection[i]), i) : i \in
        {j \in DOMAIN collection :
            \A k \in 1..Len(kwargs) : Satisfies(Loaded(collection[j]), kwargs[k])}}

\* The instances the last call returned.
Returned == {ret.objects[i] : i \in 1..Len(ret.objects)}

\* C1: a fetch with a filter that is not a 3-element list (another container,
\* or a list of fewer or more than three items) raises an error, and does so
\* before any interaction with the backend.
C1_MalformedFilterRejectedFirst ==
    (/\ call.op = "fetch"
     /\ \E i \in 1..Len(call.filters) :
            call.filters[i].type # "list" \/ Len(call.filters[i].items) # 3)
    => (err # "" /\ backend_calls = <<>>)

\* C2: a fetch with a filter whose operator is '!=' raises an error, whichever
\* filter carries it, and no backend interaction (collection or connection
\* access, search, find, where, query) happens before the error.
C2_NotEqualRejectedFirst ==
    (/\ call.op = "fetch"
     /\ \E i \in 1..Len(call.filters) :
            Len(call.filters[i].items) >= 2 /\ call.filters[i].items[2] = NotEqual)
    => (err # "" /\ backend_calls = <<>>)

\* C3: create() returns the id the backend assigned and writes it onto the
\* instance, and a get() of that id right after it returns an instance with
\* the fields the instance was created with and with that id.
C3_CreateGetRoundTrip ==
    [][(call.op = "create" /\ call'.op = "get" /\ call'.obj_id = ret.id)
       => (/\ ret.id # NoId
           /\ self.id = ret.id
           /\ err' = ""
           /\ ret'.objects = <<Instance(call.fields, ret.id)>>)]_vars

\* C4: edit(id, **fields) of an existing document changes the named fields
\* of that document and nothing else: get(id) then shows the new values of
\* the named fields and the old values of the others, and every other
\* document is as it was.
C4_EditChangesNamedFieldsOnly ==
    [][(call'.op = "edit" /\ call'.obj_id \in DOMAIN collection)
       => (LET id == call'.obj_id
               kwargs == call'.fields
               before == Loaded(collection[id])
               after == Loaded(collection'[id])
           IN /\ DOMAIN collection' = DOMAIN collection
              /\ \A j \in DOMAIN collection \ {id} : collection'[j] = collection[j]
              /\ DOMAIN after = DOMAIN before \cup DOMAIN kwargs
              /\ \A f \in DOMAIN kwargs : after[f] = kwargs[f]
              /\ \A f \in DOMAIN before \ DOMAIN kwargs : after[f] = before[f])]_vars

\* C5: a fetch with one or more filters over the five operators returns
\* exactly the documents that satisfy every filter, on every backend.
C5_FetchReturnsConjunction ==
    (/\ call.op = "fetch"
     /\ call.limit = 0
     /\ call.filters # <<>>
     /\ \A i \in 1..Len(call.filters) : WellFormed(call.filters[i]))
    => (err = "" /\ Returned = AllMatches(call.filters))

\* C6: fetch(limit=N) with N > 0 returns at most N instances, all of them
\* matches; fetch() and fetch(limit=0) return every matching document.
C6_FetchLimit ==
    (/\ call.op = "fetch"
     /\ \A i \in 1..Len(call.filters) : WellFormed(call.filters[i]))
    => /\ call.limit > 0 =>
            /\ Len(ret.objects) <= call.limit
            /\ Returned \subseteq AllMatches(call.filters)
       /\ call.limit = 0 => (err = "" /\ Returned = AllMatches(call.filters))

----------------------------------------------------------------------------
(* The game: what the specification says of it.                            *)

\* C7: every stored secret number is in 1..30, from registration on, and
\* POST /result by a user with secret s and guess g says "Correct" and stores
\* a new secret in 1..30 when g = s, says "smaller" when g > s and "bigger"
\* when g < s, leaving the secret as it is.
C7_GuessResult ==
    [][/\ \A i \in DOMAIN users' :
            users'[i].secret_number >= 1 /\ users'[i].secret_number <= 30
       /\ (response'.route = "POST /result" /\ response'.user # NoUser)
          => LET u == response'.user
                 s == users[u].secret_number
                 g == response'.guess
             IN /\ g = s => /\ response'.body = "Correct! The secret number is"
                            /\ users'[u].secret_number \in 1..30
                /\ g > s => /\ response'.body = "Your guess is not correct... try something smaller."
                            /\ users' = users
                /\ g < s => /\ response'.body = "Your guess is not correct... try something bigger."
                            /\ users' = users]_vars

\* A correct guess has been answered and the user has another secret number now.
C7_Witness ==
    /\ response.route = "POST /result"
    /\ response.body = "Correct! The secret number is"
    /\ users[response.user].secret_number # response.guess
    /\ response.guess = HighSecret

\* The session tokens the user u has or had.
TokensOf(u) == {users[u].session_token} \cup {p[2] : p \in {q \in retired : q[1] = u}}

\* C8: once a user has confirmed POST /profile/delete, no session lookup that
\* filters on deleted = false finds a user for a session token of hers, while
\* her row is still in the table, marked deleted, and GET /users/<id> finds it.
C8_SoftDelete ==
    /\ \A u \in confirmed_delete :
        /\ u \in DOMAIN users
        /\ users[u].deleted
        /\ \A t \in TokensOf(u) : first(filter_by_session_live(t)) = NoUser
    /\ \A u \in confirmed_delete :
        /\ (/\ response.route \in {"GET /", "GET /profile", "GET /profile/edit", "GET /profile/delete"}
            /\ session_cookie(response.client) \in TokensOf(u))
           => response.user = NoUser
        /\ (response.route = "GET /users/<id>" /\ response.user # NoUser)
           => response.user \in DOMAIN users

\* A deleted user's browser, still holding her token, has asked for / and got
\* the login form.
C8_Witness ==
    \E u \in confirmed_delete :
        /\ response.route = "GET /"
        /\ session_cookie(response.client) = users[u].session_token
        /\ response.body = "Enter your name"

\* C9: GET / shows the guess form exactly when the cookie of the request is
\* the current session token of a stored user who is not deleted, and the
\* login form otherwise; a client whose POST /login has just succeeded is
\* shown the guess form.
C9_IndexView ==
    [][/\ response'.route = "GET /"
          => (response'.body = "Enter your guess"
              <=> /\ cookies'[response'.client].session_token # NoToken
                  /\ \E u \in DOMAIN users' :
                        /\ users'[u].session_token = cookies'[response'.client].session_token
                        /\ ~users'[u].deleted)
       /\ (/\ response.route = "POST /login" /\ response.status = 302
           /\ response'.route = "GET /" /\ response'.client = response.client)
          => response'.body = "Enter your guess"]_vars

\* C10: a successful login stores a new session token on the user, and a
\* token that a later login replaced resolves to no user; no token resolves
\* to more than one user.
C10_TokenRotation ==
    /\ \A p \in retired : filter_by_session(p[2]) = {}
    /\ \A c \in Clients :
        session_cookie(c) # NoToken => Cardinality(filter_by_session(session_cookie(c))) <= 1
    /\ (response.route = "POST /login" /\ response.status = 302)
       => /\ users[response.user].session_token = session_cookie(response.client)
          /\ users[response.user].session_token = next_token - 1

\* A browser holds a token that a later login of the same user replaced.
C10_Witness ==
    \E c \in Clients, p \in retired :
        /\ session_cookie(c) = p[2]
        /\ response.route = "GET /" /\ response.client = c /\ response.user = NoUser

\* C11: after GET /logout of a client, the next GET / or GET /profile of the
\* same client, with the cookies it holds then, finds no user by its session
\* token: the client is treated as not logged in.
C11_LogoutEndsSession ==
    [][(/\ response.route = "GET /logout"
        /\ response'.route \in {"GET /", "GET /profile"}
        /\ response'.client = response.client)
       => response'.user = NoUser]_vars

\* C12: a request of a client whose session_token cookie is the token of a
\* user marked deleted leaves every field of the row of that user as it was.
C12_DeletedRecordFrozen ==
    [][\A u \in DOMAIN users :
          (/\ users[u].deleted
           /\ response'.client \in Clients
           /\ session_cookie(response'.client) = users[u].session_token)
          => users'[u] = users[u]]_vars

====
